---- MODULE Spec2Model ----
(***************************************************************************)
(* A model of MELD's vertex-frequency clustering estimator                 *)
(* (src/meld/cluster.py, class VertexFrequencyCluster) and of the spectral *)
(* filter meld() (src/python/meld/meldconvex.py).                          *)
(*                                                                         *)
(* Numeric objects are values V: a constructor name f, a shape, a          *)
(* dense/sparse flag and the operands the object was computed from.        *)
(* Library calls (numpy, scipy, sklearn, pygsp) are constructors over      *)
(* their operands, with the shape rules and the failures of the library;   *)
(* signals carry their entries (data, over the common denominator n), so   *)
(* centring and the means of the relabelling are computed exactly.         *)
(* A Python attribute that may be None is a sequence: <<>> is None and     *)
(* <<v>> is the value v.                                                   *)
(***************************************************************************)
EXTENDS Integers, Sequences, FiniteSets, Bags, TLC

VARIABLES
    \* ---- VertexFrequencyCluster instance (cluster.py:42-64)
    sparse,         \* self.sparse
    window_sizes,   \* self.window_sizes
    window_count,   \* self.window_count
    n_clusters,     \* self.n_clusters
    basewindow,     \* self._basewindow (None or a matrix)
    windows,        \* self.windows (unset before the first fit)
    eigenvectors,   \* self.eigenvectors
    N,              \* self.N
    spec_hist,      \* self.spec_hist
    spectrogram,    \* self.spectrogram
    isfit,          \* self.isfit
    RES,            \* self.RES (unset before the first transform)
    EES,            \* self.EES
    labels_,        \* self.labels_
    \* ---- what the last call on the estimator was and how it ended
    last,
    \* ---- history of the estimator, read by the properties only
    hist,
    calls,          \* number of calls made on the estimator
    \* ---- meld(): the caller's graph object and the last call
    gL,             \* g.L as the number of degree-normalised transposes applied
    mlast

vfcVars == <<sparse, window_sizes, window_count, n_clusters, basewindow, windows,
             eigenvectors, N, spec_hist, spectrogram, isfit, RES, EES, labels_,
             last, hist, calls>>
meldVars == <<gL, mlast>>
vars == <<vfcVars, meldVars>>

----------------------------------------------------------------------------
(* Bounds of the model *)

\* vertex count of the small graph (fewer vertices than principal components)
NSmall == 3
\* largest number of windows an estimator is constructed with
MaxWindowCount == 2
\* number of clusters the estimators are constructed with
NClusters == 3
\* number of calls made on one estimator
MaxCalls == 4

\* decomposition.PCA(25): the number of principal components kept
PCAComponents == 25

\* vertex count of the graphs a transform can succeed on
NLarge == PCAComponents

----------------------------------------------------------------------------
(* Values *)

None == <<>>
Some(v) == <<v>>
IsNone(o) == o = <<>>
Get(o) == o[1]

Mk(f, shape, sp, n, args, data, bag) ==
    [f |-> f, shape |-> shape, sparse |-> sp, n |-> n, args |-> args,
     data |-> data, bag |-> bag]

RECURSIVE SumTo(_, _)
SumTo(s, k) == IF k = 0 THEN 0 ELSE s[k] + SumTo(s, k - 1)
SumSeq(s) == SumTo(s, Len(s))

InSeq(x, s) == \E i \in DOMAIN s : s[i] = x

Max(a, b) == IF a >= b THEN a ELSE b
Min(a, b) == IF a <= b THEN a ELSE b

\* A signal with the given entries, as the caller holds it.
Signal(kind, shape, data) == Mk(kind, shape, FALSE, 1, <<>>, data, EmptyBag)

\* isinstance(x, (list, tuple, np.ndarray, pd.Series))
IsArrayLike(x) == x.f \in {"list", "ndarray"}

\* np.array(x): a list becomes an ndarray with the same shape and entries.
np_array(x) == IF x.f = "list" THEN [x EXCEPT !.f = "ndarray"] ELSE x

\* x - x.mean(), exactly: entry i becomes (size*x[i] - sum(x)) / (size*n).
Center(x) ==
    [x EXCEPT !.data = [i \in DOMAIN x.data |->
                           x.data[i] * Len(x.data) - SumSeq(x.data)],
              !.n = x.n * Len(x.data)]

----------------------------------------------------------------------------
(* Shape rules of the libraries; None is a raised error *)

PadLeft(s, k) ==
    [i \in 1..k |-> IF i <= k - Len(s) THEN 1 ELSE s[i - (k - Len(s))]]

\* numpy broadcasting of two shapes
Broadcast(a, b) ==
    LET k == Max(Len(a), Len(b))
        pa == PadLeft(a, k)
        pb == PadLeft(b, k)
    IN IF \A i \in 1..k : pa[i] = pb[i] \/ pa[i] = 1 \/ pb[i] = 1
       THEN Some([i \in 1..k |-> IF pa[i] = 1 THEN pb[i] ELSE pa[i]])
       ELSE None

Reverse(s) == [i \in 1..Len(s) |-> s[Len(s) + 1 - i]]

\* x.T
Transpose(x) ==
    Mk("T", Reverse(x.shape), x.sparse, 0, <<x>>, <<>>, EmptyBag)

\* x[:, None]
NewAxis(x) ==
    Mk("newaxis", <<x.shape[1], 1>> \o Tail(x.shape), x.sparse, 0, <<x>>,
       <<>>, EmptyBag)

\* np.multiply(w, x) and w.multiply(x)
Multiply(w, x) ==
    LET s == Broadcast(w.shape, x.shape)
    IN IF IsNone(s) THEN None
       ELSE Some(Mk("multiply", Get(s), w.sparse, 0, <<w, x>>, <<>>, EmptyBag))

\* a @ b for a 2-D a and a 2-D or stacked b
MatMul(a, b) ==
    LET k == Len(b.shape)
    IN IF Len(a.shape) = 2 /\ k >= 2 /\ a.shape[2] = b.shape[k - 1]
       THEN Some(Mk("matmul", [b.shape EXCEPT ![k - 1] = a.shape[1]], FALSE, 0,
                    <<a, b>>, <<>>, EmptyBag))
       ELSE None

\* preprocessing.normalize(x, 'l2', axis): a 2-D array is required
Normalize(x, axis) ==
    IF Len(x.shape) = 2
    THEN Some(Mk("normalize", x.shape, x.sparse, axis, <<x>>, <<>>, EmptyBag))
    ELSE None

\* np.linalg.matrix_power(w, t) and, for a scipy sparse matrix, w ** t
MatrixPower(w, t) ==
    IF Len(w.shape) = 2 /\ w.shape[1] = w.shape[2]
    THEN Some(Mk("matrix_power", w.shape, w.sparse, t, <<w>>, <<>>, EmptyBag))
    ELSE None

\* x.astype(float)
AsFloat(x) == Mk("astype_float", x.shape, x.sparse, 0, <<x>>, <<>>, EmptyBag)

\* w.toarray() and sparse.csr_matrix(w)
ToArray(w) == Mk("toarray", w.shape, FALSE, 0, <<w>>, <<>>, EmptyBag)
CsrMatrix(w) == Mk("csr_matrix", w.shape, TRUE, 0, <<w>>, <<>>, EmptyBag)

----------------------------------------------------------------------------
(* Graphs handed to fit *)

\* G.diff_op, G.U: the diffusion operator and the Fourier basis of graph G
diff_op(G) == Mk("diff_op", <<G.N, G.N>>, G.sparseDiff, 0, <<>>, <<G.gid>>, EmptyBag)
FourierU(G) == Mk("U", <<G.N, G.N>>, FALSE, 0, <<>>, <<G.gid>>, EmptyBag)

\* What callers pass to fit: two graphs of NLarge vertices (one with a sparse
\* diffusion operator), one of NSmall vertices, and an object that is no graph.
FitInputs ==
    { [gid |-> 1, N |-> NLarge, pygsp |-> TRUE,  sparseDiff |-> FALSE],
      [gid |-> 2, N |-> NLarge, pygsp |-> TRUE,  sparseDiff |-> TRUE],
      [gid |-> 3, N |-> NSmall, pygsp |-> TRUE,  sparseDiff |-> FALSE],
      [gid |-> 4, N |-> NSmall, pygsp |-> FALSE, sparseDiff |-> FALSE] }

\* utils._check_pygsp_graph(G): TRUE when G passes
check_pygsp_graph(G) == G.pygsp

----------------------------------------------------------------------------
(* VertexFrequencyCluster *)

\* _activate(x, alpha=1): tanh(alpha * |x|)
activate(x) == Mk("activate", x.shape, x.sparse, 1, <<x>>, <<>>, EmptyBag)

\* _compute_window(window, t): the normalised t-th power, transposed
compute_window(window, t) ==
    LET p == MatrixPower(window, t)
        q == IF IsNone(p) THEN None ELSE Normalize(Get(p), 0)
    IN IF IsNone(q) THEN None ELSE Some(Transpose(Get(q)))

\* _compute_spectrogram(RES, window), given the cached eigenvectors U
compute_spectrogram(res, window, U) ==
    LET c0 == Multiply(window, NewAxis(res))
        c1 == IF IsNone(c0) THEN None ELSE MatMul(Transpose(U), Get(c0))
        c2 == IF IsNone(c1) THEN None ELSE Normalize(Get(c1), 0)
    IN IF IsNone(c2) THEN None ELSE Some(Transpose(Get(c2)))

\* fit, lines 166-171: the base window is taken from the graph only when none is
\* cached, then converted to the estimator's representation.
FitBaseWindow(bw, G, sp) ==
    LET b == IF IsNone(bw) THEN diff_op(G) ELSE Get(bw)
    IN IF ~sp /\ b.sparse THEN ToArray(b)
       ELSE IF sp /\ ~b.sparse THEN CsrMatrix(b)
       ELSE b

\* fit, lines 173-177: one window per entry of window_sizes
FitWindows(b, sizes) ==
    [i \in 1..Len(sizes) |-> AsFloat(Get(compute_window(b, sizes[i])))]

\* __init__, lines 48-51: window_sizes defaults to 2 ** arange(window_count)
RECURSIVE Pow2(_)
Pow2(k) == IF k = 0 THEN 1 ELSE 2 * Pow2(k - 1)
DefaultWindowSizes(count) ==
    [shape |-> <<count>>, data |-> [i \in 1..count |-> Pow2(i - 1)]]

\* __init__, line 53: np.min(self.window_sizes.shape)
RECURSIVE MinSeq(_)
MinSeq(s) == IF Len(s) = 1 THEN s[1] ELSE Min(Head(s), MinSeq(Tail(s)))
WindowCountOf(sizes) == MinSeq(sizes.shape)

\* `for t in self.window_sizes`: the scalars of a 1-D array; a 2-D array yields
\* its rows, which are no exponents.
IterScalars(sizes) == IF Len(sizes.shape) = 1 THEN Some(sizes.data) ELSE None

\* What the constructor is called with: the representation flag and either a
\* window count (MaxWindowCount) or an explicit 2-D array of window sizes.
ConstructorWindowSizes ==
    { DefaultWindowSizes(MaxWindowCount), [shape |-> <<2, 1>>, data |-> <<1, 2>>] }

\* A call as the caller sees it: the operation, the shapes and kinds of its
\* array arguments, how it ended (the stage a StateError names as missing), and
\* the shape of the matrix it returned.
NoCall == [op |-> "none", inp |-> <<>>, outcome |-> "ok", missing |-> "", ret |-> None]
Call(op, inp, outcome, missing, ret) ==
    [op |-> op, inp |-> inp, outcome |-> outcome, missing |-> missing, ret |-> ret]
Arg(x) == [f |-> x.f, shape |-> x.shape]

NoHist ==
    [lastFit |-> None,              \* the graph of the most recent completed fit
     transformed |-> FALSE,         \* a transform has completed since construction
     calledSinceFit |-> FALSE,      \* transform was called since that fit
     producer |-> None,             \* the RES of the call that set self.spectrogram
     okRES |-> None,                \* the RES of the last completed transform
     specComplete |-> FALSE,        \* self.spectrogram is what that transform returned
     raw |-> None,                  \* the raw labels of the last clustering
     orderedBy |-> None]            \* the signal the last relabelling ordered by

InitVFC ==
    /\ sparse \in BOOLEAN
    /\ window_sizes \in ConstructorWindowSizes
    /\ window_count = WindowCountOf(window_sizes)
    /\ n_clusters = NClusters
    /\ basewindow = None
    /\ windows = <<>>
    /\ eigenvectors = None
    /\ N = None
    /\ spec_hist = None
    /\ spectrogram = None
    /\ isfit = FALSE
    /\ RES = None
    /\ EES = None
    /\ labels_ = None
    /\ last = NoCall
    /\ hist = NoHist
    /\ calls = 0

Init ==
    /\ InitVFC
    /\ gL = 0
    /\ mlast = [op |-> "none"]

----------------------------------------------------------------------------
(* fit(G), cluster.py:161-183 *)

Fit(G) ==
    IF ~check_pygsp_graph(G)
    THEN /\ last' = Call("fit", <<>>, "TypeMismatch", "", None)
         /\ UNCHANGED <<sparse, window_sizes, window_count, n_clusters, basewindow,
                        windows, eigenvectors, N, spec_hist, spectrogram, isfit,
                        RES, EES, labels_, hist>>
    ELSE LET b == FitBaseWindow(basewindow, G, sparse)
             ts == IterScalars(window_sizes)
         IN /\ basewindow' = Some(b)
            /\ IF IsNone(ts)
               THEN \* _compute_window raises on the first row of window_sizes
                    /\ windows' = <<>>
                    /\ last' = Call("fit", <<>>, "NumericError", "", None)
                    /\ UNCHANGED <<eigenvectors, N, isfit, hist>>
               ELSE /\ windows' = FitWindows(b, Get(ts))
                    /\ eigenvectors' = Some(FourierU(G))
                    /\ N' = Some(G.N)
                    /\ isfit' = TRUE
                    /\ last' = Call("fit", <<>>, "ok", "", None)
                    /\ hist' = [hist EXCEPT !.lastFit = Some(G),
                                            !.calledSinceFit = FALSE]
            /\ UNCHANGED <<sparse, window_sizes, window_count, n_clusters,
                           spec_hist, spectrogram, RES, EES, labels_>>

----------------------------------------------------------------------------
(* transform(RES, EES, weight=1), cluster.py:185-234 *)

Ramp(n) == [i \in 1..n |-> i]
RevRamp(n) == [i \in 1..n |-> n + 1 - i]
Saw(n) == [i \in 1..n |-> i % 3]

SigRamp == Signal("ndarray", <<NLarge>>, Ramp(NLarge))
SigRev == Signal("list", <<NLarge>>, RevRamp(NLarge))
SigSaw == Signal("ndarray", <<NLarge>>, Saw(NLarge))
SigSmall == Signal("ndarray", <<NSmall>>, Ramp(NSmall))
SigCol == Signal("ndarray", <<NLarge, 1>>, Ramp(NLarge))
SigTwo == Signal("ndarray", <<NLarge, 2>>, RevRamp(2 * NLarge))
SigRow == Signal("ndarray", <<1, NLarge>>, Ramp(NLarge))
SigFloat == Signal("float", <<>>, <<5>>)

\* The (RES, EES) pairs callers pass to transform.
TransformInputs ==
    { <<SigRamp, SigRamp>>,
      <<SigSmall, SigSmall>>, <<SigSaw, SigSmall>>,
      <<SigRev, SigRamp>>, <<SigRamp, SigTwo>>, <<SigRamp, SigRow>>,
      <<SigCol, SigRamp>>, <<SigFloat, SigRamp>> }

\* A loop that stops one window short.
LoopCountShort(wc) == wc - 1

\* `for i in range(self.window_count)`: the number of iterations
LoopCount(wc) == wc

\* Lines 205-211: spec_hist after the loop, or as the loop left it when
\* self.windows[i] or _compute_spectrogram raised.
RECURSIVE SpecHistLoop(_, _, _, _, _, _)
SpecHistLoop(i, count, res, ws, U, acc) ==
    IF i > count THEN [ok |-> TRUE, hist |-> acc]
    ELSE IF i > Len(ws) THEN [ok |-> FALSE, hist |-> acc]
    ELSE LET c == compute_spectrogram(res, ws[i], U)
         IN IF IsNone(c) THEN [ok |-> FALSE, hist |-> acc]
            ELSE SpecHistLoop(i + 1, count, res, ws, U,
                              Append(acc, activate(Get(c))))

\* sum(self.spec_hist): 0 + m1 + m2 + ..., an elementwise sum, kept as the bag
\* of its summands; the int 0 when the list is empty.
RECURSIVE BagOfSeq(_)
BagOfSeq(s) == IF s = <<>> THEN EmptyBag
               ELSE BagOfSeq(SubSeq(s, 1, Len(s) - 1)) (+) SetToBag({s[Len(s)]})
PySum(s) ==
    IF s = <<>> THEN Mk("int", <<>>, FALSE, 0, <<>>, <<>>, EmptyBag)
    ELSE Mk("sum", s[1].shape, FALSE, 0, <<>>, <<>>, BagOfSeq(s))

\* decomposition.PCA(25).fit_transform(x)
PCA(x) ==
    IF Len(x.shape) = 2 /\ Min(x.shape[1], x.shape[2]) >= PCAComponents
    THEN Some(Mk("PCA", <<x.shape[1], PCAComponents>>, FALSE, PCAComponents,
                 <<x>>, <<>>, EmptyBag))
    ELSE None

\* np.c_[a, b]: 1-D operands become columns; the row counts must agree
AsColumns(shape) == IF Len(shape) = 1 THEN <<shape[1], 1>> ELSE shape
np_c(a, b) ==
    LET sa == AsColumns(a.shape)
        sb == AsColumns(b.shape)
    IN IF Len(sa) = 2 /\ Len(sb) = 2 /\ sa[1] = sb[1]
       THEN Some(Mk("c_", <<sa[1], sa[2] + sb[2]>>, FALSE, 0, <<a, b>>, <<>>,
                    EmptyBag))
       ELSE None

\* _concat_EES_to_spectrogram(weight), lines 150-159
concat_EES_to_spectrogram(spec, ees, weight) ==
    LET data == PCA(spec)
    IN IF IsNone(data) THEN None
       ELSE \* EES * scale, the scale computed from the columns it is put beside
            np_c(Get(data),
                 Mk("scaled_EES", ees.shape, FALSE, weight, <<ees>>, <<>>, EmptyBag))

\* How a transform call ends: the attributes it leaves and what it returns.
TransformEnd(inp, outcome, missing, res, ees, sh, sp, ret, h) ==
    /\ RES' = res
    /\ EES' = ees
    /\ spec_hist' = sh
    /\ spectrogram' = sp
    /\ last' = Call("transform", inp, outcome, missing, ret)
    /\ hist' = [h EXCEPT !.calledSinceFit = TRUE]
    /\ UNCHANGED <<sparse, window_sizes, window_count, n_clusters, basewindow,
                   windows, eigenvectors, N, isfit, labels_>>

Transform(res_in, ees_in) ==
    LET inp == <<Arg(res_in), Arg(ees_in)>> IN
    IF ~isfit
    THEN \* lines 187-191
         TransformEnd(inp, "StateError", "fit", Some(res_in), Some(ees_in), spec_hist,
                      spectrogram, None, hist)
    ELSE IF ~IsArrayLike(res_in) \/ ~IsArrayLike(ees_in)
    THEN \* lines 194-196
         TransformEnd(inp, "TypeMismatch", "", Some(res_in), Some(ees_in), spec_hist,
                      spectrogram, None, hist)
    ELSE LET r == np_array(res_in)
             e == np_array(ees_in)
         IN IF ~InSeq(Get(N), r.shape) \/ ~InSeq(Get(N), e.shape)
            THEN \* lines 197-202
                 TransformEnd(inp, "ShapeMismatch", "", Some(r), Some(e), spec_hist,
                              spectrogram, None, hist)
            ELSE LET c == Center(r)
                     loop == SpecHistLoop(1, LoopCount(window_count), c, windows,
                                          Get(eigenvectors), <<>>)
                 IN IF ~loop.ok
                    THEN \* lines 204-211, an error inside the loop
                         TransformEnd(inp, "NumericError", "", Some(c), Some(e),
                                      Some(loop.hist), spectrogram, None, hist)
                    ELSE LET agg == PySum(loop.hist)
                             fused == concat_EES_to_spectrogram(agg, e, 1)
                             h == [hist EXCEPT !.producer = Some(c),
                                               !.specComplete = FALSE]
                         IN IF IsNone(fused)
                            THEN \* line 215 done, line 231 raised
                                 TransformEnd(inp, "NumericError", "", Some(c), Some(e),
                                              Some(loop.hist), Some(agg), None, h)
                            ELSE TransformEnd(inp, "ok", "", Some(c), Some(e),
                                              Some(loop.hist), fused,
                                              Some(Get(fused).shape),
                                              [h EXCEPT !.transformed = TRUE,
                                                        !.okRES = Some(c),
                                                        !.specComplete = TRUE])

----------------------------------------------------------------------------
(* predict(), cluster.py:240-253 *)

\* KMeans(n_clusters=k).fit_predict(X) on n rows: some labelling with ids in
\* 0..k-1, in no particular order of ids: two blocks or three blocks.
RawLabelings(n, k) ==
    { [i \in 1..n |-> IF i <= n \div 2 THEN a ELSE (a + 1) % k] : a \in {0, k - 1} }
    \cup
    { [i \in 1..n |-> IF i <= n \div 3 THEN a
                      ELSE IF i <= (2 * n) \div 3 THEN (a + 1) % k
                      ELSE (a + 2) % k] : a \in {1} }

\* KMeans.fit_predict accepts a 2-D array with at least n_clusters rows
KMeansAccepts(X, k) == Len(X.shape) = 2 /\ X.shape[1] >= k

\* The per-vertex values of a signal for n vertices (the sum of the vertex's
\* row for a 2-D signal), or None when the signal cannot be indexed by vertex.
VertexValues(sig, n) ==
    LET a == np_array(sig)
    IN IF a.f = "ndarray" /\ Len(a.shape) >= 1 /\ a.shape[1] = n /\ n > 0
       THEN LET m == Len(a.data) \div n
            IN Some([i \in 1..n |->
                       SumSeq([j \in 1..m |-> a.data[(i - 1) * m + j]])])
       ELSE None

ClusterSum(labels, v, c) ==
    SumSeq([i \in 1..Len(labels) |-> IF labels[i] = c THEN v[i] ELSE 0])
ClusterSize(labels, c) == Cardinality({i \in 1..Len(labels) : labels[i] = c})

\* utils.sort_clusters_by_meld_score(clusters, signal): cluster ids sorted
\* ascending by the mean of the signal over their members (ties by id), raw
\* labels remapped to the rank of their cluster.
sort_clusters_by_meld_score(labels, sig) ==
    LET vv == VertexValues(sig, Len(labels))
    IN IF IsNone(vv) THEN None
       ELSE LET v == Get(vv)
                used == {labels[i] : i \in 1..Len(labels)}
                S == [c \in used |-> ClusterSum(labels, v, c)]
                Z == [c \in used |-> ClusterSize(labels, c)]
                \* mean(a) < mean(b), or equal means and a < b
                Before(a, b) ==
                    \/ S[a] * Z[b] < S[b] * Z[a]
                    \/ S[a] * Z[b] = S[b] * Z[a] /\ a < b
                rank == [c \in used |-> Cardinality({a \in used : Before(a, c)})]
            IN Some([i \in 1..Len(labels) |-> rank[labels[i]]])

PredictEnd(outcome, missing, lab, h) ==
    /\ labels_' = lab
    /\ last' = Call("predict", <<>>, outcome, missing, None)
    /\ hist' = h
    /\ UNCHANGED <<sparse, window_sizes, window_count, n_clusters, basewindow,
                   windows, eigenvectors, N, spec_hist, spectrogram, isfit, RES,
                   EES>>

Predict ==
    IF ~isfit
    THEN PredictEnd("StateError", "fit", labels_, hist)
    ELSE IF IsNone(spectrogram)
    THEN PredictEnd("StateError", "transform", labels_, hist)
    ELSE IF ~KMeansAccepts(Get(spectrogram), n_clusters)
    THEN PredictEnd("NumericError", "", labels_, hist)
    ELSE \E raw \in RawLabelings(Get(spectrogram).shape[1], n_clusters) :
            LET sorted == sort_clusters_by_meld_score(raw, Get(RES))
            IN IF IsNone(sorted)
               THEN PredictEnd("NumericError", "", Some(raw), hist)
               ELSE PredictEnd("ok", "", sorted,
                               [hist EXCEPT !.raw = Some(raw),
                                            !.orderedBy = RES])

----------------------------------------------------------------------------

(* meld(X, gamma, g, offset, order, solver, fi, alpha), meldconvex.py:11-128 *)

\* A Python string is the sequence of its characters.
UpperCase == <<"A", "B", "C", "D", "E", "F", "G", "H", "I", "J", "K", "L", "M", "N", "O", "P", "Q", "R", "S", "T", "U", "V", "W", "X", "Y", "Z">>
LowerCase == <<"a", "b", "c", "d", "e", "f", "g", "h", "i", "j", "k", "l", "m", "n", "o", "p", "q", "r", "s", "t", "u", "v", "w", "x", "y", "z">>

\* str.lower()
LowerOf ==
    [c \in {UpperCase[i] : i \in 1..Len(UpperCase)} |->
        LowerCase[CHOOSE i \in 1..Len(UpperCase) : UpperCase[i] = c]]
LowerChar(c) == IF c \in DOMAIN LowerOf THEN LowerOf[c] ELSE c
Lower(str) == [i \in 1..Len(str) |-> LowerChar(str[i])]

\* An argument that should be a string: a string, or some other object.
Str(chars) == [isStr |-> TRUE, chars |-> chars]
NotAString == [isStr |-> FALSE, chars |-> <<>>]

\* lines 63 and 70: the enumerated sets
Solvers == { <<"m", "a", "t", "r", "i", "x">>, <<"c", "h", "e", "b", "y">> }
Filters == { <<"r", "e", "g", "u", "l", "a", "r", "i", "z", "e", "d", "l", "a", "p", "l", "a", "c", "i", "a", "n">>, <<"r", "a", "n", "d", "o", "m", "w", "a", "l", "k">> }
RandomWalk == <<"r", "a", "n", "d", "o", "m", "w", "a", "l", "k">>

\* The solver and fi values callers pass.
SolverInputs ==
    { Str(<<"c", "h", "e", "b", "y">>), Str(<<"m", "a", "t", "r", "i", "x">>), Str(<<"M", "A", "T", "R", "I", "X">>), Str(<<"B", "o", "g", "u", "s">>), NotAString }
FilterInputs ==
    { Str(<<"r", "e", "g", "u", "l", "a", "r", "i", "z", "e", "d", "l", "a", "p", "l", "a", "c", "i", "a", "n">>), Str(<<"r", "a", "n", "d", "o", "m", "w", "a", "l", "k">>), Str(<<"H", "e", "a", "t">>), NotAString }

\* The graph arguments: a pygsp graph (the caller's graph object, whose Laplacian
\* is gL), a graphtools graph built without use_pygsp, and some other object.
GraphInputs == {"pygsp", "graphtools", "other"}

\* vertex count of the caller's graph
MeldN == 3
\* largest number of degree-normalised transposes the model lets pile up on g.L
MaxNest == 1

\* The shapes of the signals X callers pass (1-D and 2-D arrays).
SignalShapes ==
    { <<MeldN>>, <<MeldN + 1>>,
      <<MeldN, 1>>, <<MeldN, 2>>, <<MeldN, MeldN>>,
      <<1, MeldN>>, <<2, MeldN>>, <<2, 2>>, <<MeldN + 1, 1>> }

\* A validation whose messages are formatted with the values as supplied.
MeldValidateAsSupplied(solver, fi, g) ==
    IF ~solver.isStr
    THEN [kind |-> "TypeMismatch", names |-> <<>>]
    ELSE IF Lower(solver.chars) \notin Solvers
    THEN [kind |-> "UnsupportedOption", names |-> solver.chars]
    ELSE IF ~fi.isStr
    THEN [kind |-> "TypeMismatch", names |-> <<>>]
    ELSE IF Lower(fi.chars) \notin Filters
    THEN [kind |-> "UnsupportedOption", names |-> fi.chars]
    ELSE IF g # "pygsp"
    THEN [kind |-> "TypeMismatch", names |-> <<>>]
    ELSE [kind |-> "", names |-> <<>>]

\* lines 60-82: the error the validation of solver, fi and g raises, if any.
\* kind "" is no error; names is the value the message is formatted with.
MeldValidate(solver, fi, g) ==
    IF ~solver.isStr
    THEN [kind |-> "TypeMismatch", names |-> <<>>]
    ELSE IF Lower(solver.chars) \notin Solvers
    THEN [kind |-> "UnsupportedOption", names |-> Lower(solver.chars)]
    ELSE IF ~fi.isStr
    THEN [kind |-> "TypeMismatch", names |-> <<>>]
    ELSE IF Lower(fi.chars) \notin Filters
    THEN [kind |-> "UnsupportedOption", names |-> Lower(fi.chars)]
    ELSE IF g # "pygsp"
    THEN [kind |-> "TypeMismatch", names |-> <<>>]
    ELSE [kind |-> "", names |-> <<>>]

\* An orientation check that looks at the trailing dimension first.
OrientTrailingFirst(shape, n) ==
    IF Len(shape) > 1 /\ shape[2] = n THEN "T"
    ELSE IF shape[1] # n THEN "raise"
    ELSE ""

\* lines 84-93: "T" when X is transposed, "raise" when it is rejected, "" when it
\* is taken as it is.
Orient(shape, n) ==
    IF shape[1] # n
    THEN IF Len(shape) > 1 /\ shape[2] = n THEN "T" ELSE "raise"
    ELSE ""

\* np.squeeze: the axes of length 1 are dropped (line 107; pygsp's
\* Filter.filter squeezes its result as well)
Squeeze(shape) == SelectSeq(shape, LAMBDA d : d # 1)

\* The library calls of each path that can raise, in the order they are made.
MeldSteps(solver, fi) ==
    IF solver = <<"m", "a", "t", "r", "i", "x">>
    THEN IF fi = RandomWalk THEN {"power", "apply"} ELSE {"inv", "apply"}
    ELSE {"estimate_lmax", "Filter", "filter"}

MeldEnd(solver, fi, g, shape, outcome, names, transposed, out, touched, L) ==
    /\ gL' = L
    /\ mlast' = [op |-> "meld", solver |-> solver, fi |-> fi, g |-> g,
                 shape |-> shape, outcome |-> outcome, names |-> names,
                 transposed |-> transposed, out |-> out, touched |-> touched,
                 Lbefore |-> gL]

Meld(X, solver, fi, g) ==
    LET v == MeldValidate(solver, fi, g)
        s == Lower(solver.chars)
        f == Lower(fi.chars)
        o == Orient(X, MeldN)
        shape == IF o = "T" THEN Reverse(X) ELSE X
    IN IF v.kind # ""
       THEN MeldEnd(solver, fi, g, X, v.kind, v.names, FALSE, None, FALSE, gL)
       ELSE IF o = "raise"
       THEN \* lines 91-93
            MeldEnd(solver, fi, g, X, "ShapeMismatch", <<>>, FALSE, None, TRUE, gL)
       ELSE \E fault \in MeldSteps(s, f) \cup {"none"} :
              IF s = <<"m", "a", "t", "r", "i", "x">>
              THEN \* lines 98-107: g.L is read, never assigned
                   IF fault # "none"
                   THEN MeldEnd(solver, fi, g, X, "NumericError", <<>>, o = "T",
                                None, TRUE, gL)
                   ELSE MeldEnd(solver, fi, g, X, "ok", <<>>, o = "T",
                                Some(Squeeze(shape)), TRUE, gL)
              ELSE \* lines 110-124
                   LET L_bak == gL
                       during == IF f = RandomWalk THEN L_bak + 1 ELSE gL
                   IN /\ during <= MaxNest
                      /\ IF fault # "none"
                         THEN \* an error leaves before line 124
                              MeldEnd(solver, fi, g, X, "NumericError", <<>>,
                                      o = "T", None, TRUE, during)
                         ELSE MeldEnd(solver, fi, g, X, "ok", <<>>, o = "T",
                                      Some(Squeeze(shape)), TRUE, L_bak)

CallMeld ==
    /\ \E X \in SignalShapes, solver \in SolverInputs, fi \in FilterInputs,
          g \in GraphInputs : Meld(X, solver, fi, g)
    /\ UNCHANGED vfcVars

----------------------------------------------------------------------------

\* One more call on the estimator; meld's graph is not involved.
CallMade ==
    /\ calls < MaxCalls
    /\ calls' = calls + 1
    /\ UNCHANGED meldVars

CallFit == CallMade /\ \E G \in FitInputs : Fit(G)
CallTransform == CallMade /\ \E p \in TransformInputs : Transform(p[1], p[2])
CallPredict == CallMade /\ Predict

Next == CallFit \/ CallTransform \/ CallPredict

Spec == Init /\ [][Next]_vars

\* meld() called again and again on one graph object; the estimator is left as
\* constructed.
InitM ==
    /\ Init
    /\ ~sparse
    /\ window_sizes = DefaultWindowSizes(MaxWindowCount)
NextM == CallMeld
SpecMeld == InitM /\ [][NextM]_vars

----------------------------------------------------------------------------
(* Properties of the estimator, under Spec *)

StateErrorFor(stages) == last.outcome = "StateError" /\ last.missing \in stages

\* C1: transform on an estimator that never completed fit fails with a
\* StateError naming fit and returns no matrix; predict while no transform has
\* completed since construction fails with a StateError naming fit or transform.
C1_StageErrors ==
    /\ (last.op = "transform" /\ ~isfit) =>
           (StateErrorFor({"fit"}) /\ IsNone(last.ret))
    /\ (last.op = "predict" /\ ~hist.transformed) =>
           StateErrorFor({"fit", "transform"})

\* C2: after a fit on an estimator that had completed a transform, and until
\* transform is called again, the cached spectrogram is not available and
\* predict fails with a StateError.
C2_RefitDiscards ==
    (isfit /\ hist.transformed /\ ~hist.calledSinceFit) =>
        /\ IsNone(spectrogram)
        /\ last.op = "predict" => StateErrorFor({"transform"})

\* C4: after any sequence of fits the windows, the eigenvectors and N are those
\* of the graph passed to the most recent completed fit: every window is the
\* normalised power of that graph's diffusion operator, over N vertices.
C4_WindowsOfLastFit ==
    isfit =>
        LET G == Get(hist.lastFit)
        IN /\ N = Some(G.N)
           /\ eigenvectors = Some(FourierU(G))
           /\ windows = FitWindows(FitBaseWindow(None, G, sparse),
                                   Get(IterScalars(window_sizes)))
           /\ \A i \in 1..Len(windows) : windows[i].shape = <<G.N, G.N>>

\* The labels are in ascending order of the mean of signal v over their members.
OrderedByMean(labels, v) ==
    \A a \in {labels[i] : i \in 1..Len(labels)} :
      \A b \in {labels[i] : i \in 1..Len(labels)} :
        a < b => ClusterSum(labels, v, a) * ClusterSize(labels, b)
                   <= ClusterSum(labels, v, b) * ClusterSize(labels, a)

\* C5: the labels predict returns are ordered by the mean of the ordering
\* signal, the relabelling is a bijection on the raw cluster ids, and the
\* ordering signal is the RES of the transform that produced the clustered
\* matrix.
C5_LabelsOrderedByRES ==
    (last.op = "predict" /\ last.outcome = "ok") =>
        LET lab == Get(labels_)
            raw == Get(hist.raw)
            v == VertexValues(Get(hist.producer), Len(lab))
        IN /\ hist.orderedBy = hist.producer
           /\ \A i \in 1..Len(lab) : \A j \in 1..Len(lab) :
                  (lab[i] = lab[j]) <=> (raw[i] = raw[j])
           /\ ~IsNone(v) /\ OrderedByMean(lab, Get(v))

\* C6 (on graphs of at least 25 vertices, which PCA(25) needs): on a fit
\* estimator, transform with a RES and an EES that are 1-D of length N returns a
\* matrix of shape (N, 26); with any array-like RES or EES that is not 1-D of
\* length N it fails with a ShapeMismatch.
C6_TransformShapes ==
    (last.op = "transform" /\ isfit /\ Get(N) >= PCAComponents
       /\ \A i \in 1..2 : last.inp[i].f \in {"list", "ndarray"}) =>
        IF \A i \in 1..2 : last.inp[i].shape = <<Get(N)>>
        THEN last.outcome = "ok" /\ last.ret = Some(<<Get(N), PCAComponents + 1>>)
        ELSE last.outcome = "ShapeMismatch"

\* All orders in which n matrices can be computed and summed.
Orders(n) == {p \in [1..n -> 1..n] : \A i \in 1..n : \A j \in 1..n :
                                         p[i] = p[j] => i = j}

\* The activated per-scale matrix of window i for the cached, centred RES.
PerScale(i) ==
    activate(Get(compute_spectrogram(Get(RES), windows[i], Get(eigenvectors))))

\* C9: in a successful transform the aggregated spectrogram (the matrix the
\* principal components are taken of) is the elementwise sum of the activated
\* per-scale matrices of all windows built at fit, one per entry of the
\* window-scale list, in whatever order they are computed and summed.
C9_AggregateIsSumOfAllScales ==
    (last.op = "transform" /\ last.outcome = "ok") =>
        LET agg == Get(spectrogram).args[1].args[1]
            n == Len(windows)
        IN /\ n = Len(window_sizes.data)
           /\ agg.f = "sum"
           /\ \A p \in Orders(n) :
                  agg.bag = BagOfSeq([k \in 1..n |-> PerScale(p[k])])

\* C9's case: a transform has succeeded on an estimator with several windows.
C9_Witness ==
    /\ last.op = "transform" /\ last.outcome = "ok"
    /\ Len(windows) >= 2
    /\ spec_hist = Some([k \in 1..Len(windows) |-> PerScale(k)])

\* C10: after a failed transform the estimator holds no partial result: a later
\* predict fails with a StateError when no transform has completed, and
\* otherwise clusters the matrix the last completed transform returned and
\* orders the labels by that transform's RES.
C10_NoPartialResult ==
    last.op = "predict" =>
        IF ~hist.transformed
        THEN StateErrorFor({"fit", "transform"})
        ELSE /\ last.outcome = "ok"
             /\ hist.specComplete
             /\ hist.orderedBy = hist.okRES

----------------------------------------------------------------------------
(* Properties of meld(), under SpecMeld *)

IsRandomWalk(fi) == fi.isStr /\ Lower(fi.chars) = RandomWalk

\* C3: after every call of meld with the random-walk kernel, however it ends,
\* g.L is what it was before the call.
C3_LaplacianRestored ==
    (mlast.op = "meld" /\ IsRandomWalk(mlast.fi)) => gL = mlast.Lbefore

\* A string that is, or is not, one of the enumerated values as it stands.
Supplied(opt, set) == opt.isStr /\ opt.chars \in set
Rejected(opt, set) == opt.isStr /\ opt.chars \notin set

\* C7: a solver or kernel value outside its enumerated set fails with an
\* UnsupportedOption naming the value as supplied, a graph without the spectral
\* capability fails with a TypeMismatch, and these checks come before any read
\* or mutation of the graph.
C7_ValidationAsSupplied ==
    mlast.op = "meld" =>
        /\ Rejected(mlast.solver, Solvers) =>
              /\ mlast.outcome = "UnsupportedOption"
              /\ mlast.names = mlast.solver.chars
              /\ ~mlast.touched /\ gL = mlast.Lbefore
        /\ (Supplied(mlast.solver, Solvers) /\ Rejected(mlast.fi, Filters)) =>
              /\ mlast.outcome = "UnsupportedOption"
              /\ mlast.names = mlast.fi.chars
              /\ ~mlast.touched /\ gL = mlast.Lbefore
        /\ (Supplied(mlast.solver, Solvers) /\ Supplied(mlast.fi, Filters)
              /\ mlast.g # "pygsp") =>
              /\ mlast.outcome = "TypeMismatch"
              /\ ~mlast.touched /\ gL = mlast.Lbefore

Accepted(opt, set) == opt.isStr /\ Lower(opt.chars) \in set

\* C7, amended: a string solver or kernel whose lower-case form is outside the
\* enumerated set fails with an UnsupportedOption naming the lower-cased value;
\* a solver or kernel that is no string fails with a TypeMismatch; with both
\* accepted, a graph without the spectral capability fails with a TypeMismatch.
\* The solver is checked first, then the kernel, then the graph, all before any
\* read or mutation of the graph.
C7_ValidationLowerCased ==
    mlast.op = "meld" =>
        LET so == mlast.solver
            fi == mlast.fi
        IN /\ ~so.isStr => mlast.outcome = "TypeMismatch"
           /\ (so.isStr /\ ~Accepted(so, Solvers)) =>
                  /\ mlast.outcome = "UnsupportedOption"
                  /\ mlast.names = Lower(so.chars)
           /\ (Accepted(so, Solvers) /\ ~fi.isStr) => mlast.outcome = "TypeMismatch"
           /\ (Accepted(so, Solvers) /\ fi.isStr /\ ~Accepted(fi, Filters)) =>
                  /\ mlast.outcome = "UnsupportedOption"
                  /\ mlast.names = Lower(fi.chars)
           /\ (Accepted(so, Solvers) /\ Accepted(fi, Filters) /\ mlast.g # "pygsp") =>
                  mlast.outcome = "TypeMismatch"
           /\ ~(Accepted(so, Solvers) /\ Accepted(fi, Filters) /\ mlast.g = "pygsp") =>
                  /\ mlast.outcome \in {"TypeMismatch", "UnsupportedOption"}
                  /\ ~mlast.touched
                  /\ gL = mlast.Lbefore

\* C7's case: a mixed-case unsupported solver was rejected on a graph whose
\* Laplacian an earlier call left changed.
C7_Witness ==
    /\ mlast.op = "meld"
    /\ mlast.solver.isStr /\ mlast.solver.chars # Lower(mlast.solver.chars)
    /\ mlast.outcome = "UnsupportedOption"
    /\ mlast.g # "pygsp"
    /\ gL > 0

HasDim(shape, n) == \E i \in 1..Len(shape) : shape[i] = n
Validated == mlast.op = "meld" /\ mlast.outcome \notin {"TypeMismatch", "UnsupportedOption"}

RECURSIVE NonUnit(_)
NonUnit(sh) ==
    IF sh = <<>> THEN <<>>
    ELSE IF Head(sh) = 1 THEN NonUnit(Tail(sh))
    ELSE <<Head(sh)>> \o NonUnit(Tail(sh))

====
